---- MODULE Spec2Model ----
(***************************************************************************)
(* TempMap (src/tempmap.js): a Map whose elements may carry a timer that   *)
(* deletes them, with utility methods that copy elements between maps.     *)
(*                                                                         *)
(* The containers, the host's table of pending timers (node:timers) and    *)
(* the clock are the state.  A public method is one action: the event loop *)
(* is single-threaded, so a call runs to completion and Date.now() is the  *)
(* same instant throughout it.  A timer's callback runs as a step of its   *)
(* own, at its due instant or any later one.                               *)
(***************************************************************************)
EXTENDS Integers, Sequences, FiniteSets

\* ------------------------------------------------------------------ bounds

MaxTime == 2
MaxTimeout == 2

Keys == {"a", "b"}
Values == {1, 2}
\* the containers the caller holds, and the containers a method creates
Maps == {"A", "B"}
News == {"R1", "R2"}
AllMaps == Maps \cup News
\* the keys the caller puts into each of its containers
KeysOf(m) == IF m = "B" THEN {"a"} ELSE Keys
Durations == (0 - 1)..MaxTimeout
\* the keys of a container that is filled to be sorted
SortKeys == {"a", "b", "c"}
KeyRank(key) == IF key = "a" THEN 1 ELSE IF key = "b" THEN 2 ELSE 3
\* the indices a caller asks at for: from the end, from the start, past the end
Indices == (0 - Cardinality(Keys))..Cardinality(Keys)

\* ------------------------------------------------------------------ values

\* the three shapes of a timeout argument: undefined, null, a number
Undefined == [kind |-> "undefined", n |-> 0]
Null == [kind |-> "null", n |-> 0]
Num(n) == [kind |-> "number", n |-> n]
TimeoutArgs == {Undefined, Null} \cup {Num(n) : n \in Durations}

\* an item without the 'timer' property, and the undefined item
NoTimer == [timer |-> 0, timeout |-> 0, timestamp |-> 0]
undefinedItem == [value |-> 0, timer |-> NoTimer]
NewItem(value) == [value |-> value, timer |-> NoTimer]
HasTimer(item) == item.timer # NoTimer

\* What a call returns, as an integer: a value of Values, a count, 1 or 0 for
\* true or false, and 0 for undefined and for a container.
RetUndefined == 0
RetBool(b) == IF b THEN 1 ELSE 0

\* A default value of ensure: a value, a caller's function(key, map), here one
\* that ranks the key, or the closure '()=>item.value' of #copyItem.
Plain(value) == [kind |-> "value", value |-> value]
ByKey == [kind |-> "byKey", value |-> 0]
Closure(value) == [kind |-> "closure", value |-> value]
Defaults == {Plain(value) : value \in Values} \cup {ByKey}
getValue(fn, key, m) == IF fn.kind = "byKey" THEN KeyRank(key) ELSE fn.value

VARIABLES
    now,      \* Date.now()
    store,    \* store[m]: the entries of container m, in insertion order
    timers,   \* the host's pending Timeout objects
    ret,      \* what the call just made returned
    last      \* the step just taken

vars == <<now, store, timers, ret, last>>

\* ------------------------------------------------------------------ Map

mapHas(s, key) == \E i \in 1..Len(s) : s[i].key = key
mapIndex(s, key) == CHOOSE i \in 1..Len(s) : s[i].key = key
mapGet(s, key) == IF mapHas(s, key) THEN s[mapIndex(s, key)].item ELSE undefinedItem
mapDelete(s, key) == SelectSeq(s, LAMBDA e : e.key # key)
mapSet(s, key, item) ==
    IF mapHas(s, key)
    THEN [s EXCEPT ![mapIndex(s, key)] = [key |-> key, item |-> item]]
    ELSE Append(s, [key |-> key, item |-> item])
mapKeys(s) == {s[i].key : i \in 1..Len(s)}

\* ------------------------------------------------------------------ node:timers

\* A Timeout object is known by the container and key its callback closes
\* over and a number that tells it from the other pending timers of that key.
TimersOf(ts, m, key) == {h \in ts : h.m = m /\ h.key = key}
NewId(ts, m, key) ==
    CHOOSE i \in 1..(Cardinality(TimersOf(ts, m, key)) + 1) :
        \A h \in TimersOf(ts, m, key) : h.id # i
setTimeout(ts, id, m, key, after) ==
    ts \cup {[id |-> id, m |-> m, key |-> key, after |-> after, due |-> now + after]}
clearTimeout(ts, m, key, id) == {h \in ts : ~(h.m = m /\ h.key = key /\ h.id = id)}
\* Timeout.refresh(): a pending timer starts over; a cleared one stays cleared
refresh(ts, m, key, id) ==
    {IF h.m = m /\ h.key = key /\ h.id = id THEN [h EXCEPT !.due = now + h.after] ELSE h :
        h \in ts}

\* ------------------------------------------------------------------ helpers

\* getItemTimeout without the remaining time: always the configured timeout
getItemTimeout_full(item, remaining) ==
    IF HasTimer(item) THEN Num(item.timer.timeout) ELSE Undefined

getItemTimeout(item, remaining) ==
    IF ~HasTimer(item) \/ ~remaining
    THEN IF HasTimer(item) THEN Num(item.timer.timeout) ELSE Undefined
    ELSE LET timeout == item.timer.timeout - (now - item.timer.timestamp)
         IN  IF timeout > 0 THEN Num(timeout) ELSE Null

\* a world is the part of the state a method works on, and what it returns
World(st, ts) == [store |-> st, timers |-> ts, ret |-> RetUndefined]
Return(w, r) == [store |-> w.store, timers |-> w.timers, ret |-> r]

\* refreshItemTimeout without 'item.timer.timestamp = Date.now()'
refreshItemTimeout_noStamp(w, m, key) ==
    LET item == mapGet(w.store[m], key)
    IN  IF HasTimer(item)
        THEN World(w.store, refresh(w.timers, m, key, item.timer.timer))
        ELSE w

refreshItemTimeout(w, m, key) ==
    LET item == mapGet(w.store[m], key)
    IN  IF HasTimer(item)
        THEN World([w.store EXCEPT ![m] =
                       mapSet(@, key, [item EXCEPT !.timer.timestamp = now])],
                   refresh(w.timers, m, key, item.timer.timer))
        ELSE w

\* #getItem that refreshes whatever refreshTimeout is
getItem_always(w, m, key, refreshTimeout) == refreshItemTimeout(w, m, key)

\* #getItem: the world after the optional refresh; the item is mapGet of it
getItem(w, m, key, refreshTimeout) ==
    IF refreshTimeout THEN refreshItemTimeout(w, m, key) ELSE w

\* #setTimeout without 'delete item.timer'
TempMap_setTimeout_keep(ts, m, key, item, timeout) ==
    IF timeout > 0
    THEN LET id == NewId(ts, m, key)
         IN  [item |-> [item EXCEPT !.timer =
                           [timer |-> id, timeout |-> timeout, timestamp |-> now]],
              timers |-> setTimeout(ts, id, m, key, timeout)]
    ELSE [item |-> item, timers |-> ts]

\* #setTimeout: the item with its timer set or removed, and the timers
TempMap_setTimeout(ts, m, key, item, timeout) ==
    IF timeout > 0
    THEN LET id == NewId(ts, m, key)
         IN  [item |-> [item EXCEPT !.timer =
                           [timer |-> id, timeout |-> timeout, timestamp |-> now]],
              timers |-> setTimeout(ts, id, m, key, timeout)]
    ELSE [item |-> [item EXCEPT !.timer = NoTimer], timers |-> ts]

\* #setItem without 'clearTimeout(item.timer?.timer)'
setItem_noClear(w, m, key, item, value, timeout) ==
    IF item # undefinedItem
    THEN LET valued == [item EXCEPT !.value = value]
         IN  IF timeout.kind = "number"
             THEN LET r == TempMap_setTimeout(w.timers, m, key, valued, timeout.n)
                  IN  Return(World([w.store EXCEPT ![m] = mapSet(@, key, r.item)],
                                   r.timers), value)
             ELSE IF HasTimer(item) /\ timeout = Undefined
             THEN Return(refreshItemTimeout(
                             World([w.store EXCEPT ![m] = mapSet(@, key, valued)],
                                   w.timers), m, key), value)
             ELSE Return(World([w.store EXCEPT ![m] = mapSet(@, key, valued)],
                               w.timers), value)
    ELSE LET r == TempMap_setTimeout(w.timers, m, key, NewItem(value),
                                     IF timeout.kind = "number" THEN timeout.n ELSE 0)
         IN  Return(World([w.store EXCEPT ![m] = mapSet(@, key, r.item)], r.timers),
                    value)

\* #setItem with 'timeout == undefined', which null satisfies too
setItem_looseNull(w, m, key, item, value, timeout) ==
    IF item # undefinedItem
    THEN LET valued == [item EXCEPT !.value = value]
         IN  IF timeout.kind = "number"
             THEN LET r == TempMap_setTimeout(
                               clearTimeout(w.timers, m, key, item.timer.timer),
                               m, key, valued, timeout.n)
                  IN  Return(World([w.store EXCEPT ![m] = mapSet(@, key, r.item)],
                                   r.timers), value)
             ELSE IF HasTimer(item)
             THEN Return(refreshItemTimeout(
                             World([w.store EXCEPT ![m] = mapSet(@, key, valued)],
                                   w.timers), m, key), value)
             ELSE Return(World([w.store EXCEPT ![m] = mapSet(@, key, valued)],
                               w.timers), value)
    ELSE LET r == TempMap_setTimeout(w.timers, m, key, NewItem(value),
                                     IF timeout.kind = "number" THEN timeout.n ELSE 0)
         IN  Return(World([w.store EXCEPT ![m] = mapSet(@, key, r.item)], r.timers),
                    value)

setItem(w, m, key, item, value, timeout) ==
    IF item # undefinedItem
    THEN LET valued == [item EXCEPT !.value = value]
         IN  IF timeout.kind = "number"
             THEN LET r == TempMap_setTimeout(
                               clearTimeout(w.timers, m, key, item.timer.timer),
                               m, key, valued, timeout.n)
                  IN  Return(World([w.store EXCEPT ![m] = mapSet(@, key, r.item)],
                                   r.timers), value)
             ELSE IF HasTimer(item) /\ timeout = Undefined
             THEN Return(refreshItemTimeout(
                             World([w.store EXCEPT ![m] = mapSet(@, key, valued)],
                                   w.timers), m, key), value)
             ELSE Return(World([w.store EXCEPT ![m] = mapSet(@, key, valued)],
                               w.timers), value)
    ELSE LET r == TempMap_setTimeout(w.timers, m, key, NewItem(value),
                                     IF timeout.kind = "number" THEN timeout.n ELSE 0)
         IN  Return(World([w.store EXCEPT ![m] = mapSet(@, key, r.item)], r.timers),
                    value)

\* #deleteItem without 'clearTimeout(item.timer?.timer)'
deleteItem_noCancel(w, m, key, item) ==
    IF item # undefinedItem /\ mapHas(w.store[m], key)
    THEN World([w.store EXCEPT ![m] = mapDelete(@, key)], w.timers)
    ELSE w

deleteItem(w, m, key, item) ==
    IF item # undefinedItem /\ mapHas(w.store[m], key)
    THEN World([w.store EXCEPT ![m] = mapDelete(@, key)],
               clearTimeout(w.timers, m, key, item.timer.timer))
    ELSE w

\* ------------------------------------------------------------------ methods

get(w, m, key, refreshTimeout) ==
    LET w1 == getItem(w, m, key, refreshTimeout)
        item == mapGet(w1.store[m], key)
    IN  Return(w1, IF item = undefinedItem THEN RetUndefined ELSE item.value)

\* ensure that passes an existing item on to #setItem
ensure_set(w, m, key, defaultValue, timeout, refreshTimeout) ==
    LET w1 == getItem(w, m, key, refreshTimeout)
    IN  setItem(w1, m, key, mapGet(w1.store[m], key), getValue(defaultValue, key, m),
                timeout)

ensure(w, m, key, defaultValue, timeout, refreshTimeout) ==
    LET w1 == getItem(w, m, key, refreshTimeout)
        item == mapGet(w1.store[m], key)
    IN  IF item # undefinedItem
        THEN Return(w1, item.value)
        ELSE setItem(w1, m, key, undefinedItem, getValue(defaultValue, key, m), timeout)

set(w, m, key, value, timeout) ==
    setItem(w, m, key, mapGet(w.store[m], key), value, timeout)

\* add without 'if (item) return undefined'
add_overwrite(w, m, key, value, timeout) ==
    setItem(w, m, key, mapGet(w.store[m], key), value, timeout)

add(w, m, key, value, timeout) ==
    IF mapGet(w.store[m], key) # undefinedItem
    THEN Return(w, RetUndefined)
    ELSE setItem(w, m, key, undefinedItem, value, timeout)

update(w, m, key, value, timeout) ==
    LET item == mapGet(w.store[m], key)
    IN  IF item = undefinedItem
        THEN Return(w, RetUndefined)
        ELSE setItem(w, m, key, item, value, timeout)

delete(w, m, key) ==
    LET item == mapGet(w.store[m], key)
    IN  Return(deleteItem(w, m, key, item),
               IF item = undefinedItem THEN RetUndefined ELSE item.value)

\* at returns the pair [key, value]: ret is the value, and the key is the one
\* atKey finds at the index
atIndex(w, m, index) == IF index < 0 THEN Len(w.store[m]) + index ELSE index
atFound(w, m, index) == atIndex(w, m, index) \in 0..(Len(w.store[m]) - 1)
atKey(w, m, index) ==
    IF atFound(w, m, index) THEN w.store[m][atIndex(w, m, index) + 1].key ELSE ""
at(w, m, index, refreshTimeout) ==
    IF atFound(w, m, index)
    THEN LET key == atKey(w, m, index)
             w1 == IF refreshTimeout THEN refreshItemTimeout(w, m, key) ELSE w
         IN  Return(w1, mapGet(w1.store[m], key).value)
    ELSE Return(w, RetUndefined)

\* the loop of equals: other.#getItem(key) has no refreshTimeout
RECURSIVE equalsFrom(_, _, _, _, _)
equalsFrom(w, m, other, entries, i) ==
    IF i > Len(entries)
    THEN Return(w, RetBool(TRUE))
    ELSE LET w1 == getItem(w, other, entries[i].key, FALSE)
             otherItem == mapGet(w1.store[other], entries[i].key)
         IN  IF otherItem = undefinedItem \/ otherItem.value # entries[i].item.value
             THEN Return(w1, RetBool(FALSE))
             ELSE equalsFrom(w1, m, other, entries, i + 1)

equals(w, m, other) ==
    IF m = other
    THEN Return(w, RetBool(TRUE))
    ELSE IF Len(w.store[other]) # Len(w.store[m])
    THEN Return(w, RetBool(FALSE))
    ELSE equalsFrom(w, m, other, w.store[m], 1)

\* The test functions: fn(value, key, map).  A caller's test looks at the value
\* or the key; difference and intersect pass closures over another container.
UserFn(kind) == [kind |-> kind, other |-> "A"]
Tests == {UserFn("true"), UserFn("isOne"), UserFn("isA")}
Test(w, fn, value, key) ==
    CASE fn.kind = "true" -> TRUE
      [] fn.kind = "isOne" -> value = 1
      [] fn.kind = "isA" -> key = "a"
      [] fn.kind = "notIn" -> ~mapHas(w.store[fn.other], key)
      [] fn.kind = "sameIn" ->
             LET item == mapGet(getItem(w, fn.other, key, FALSE).store[fn.other], key)
             IN  item # undefinedItem /\ value = item.value

\* the loop of sweep over an array whose later entries move up on a deletion
RECURSIVE sweepFrom_skip(_, _, _, _, _)
sweepFrom_skip(w, m, entries, i, fn) ==
    IF i > Len(entries)
    THEN w
    ELSE IF Test(w, fn, entries[i].item.value, entries[i].key)
    THEN sweepFrom_skip(deleteItem(w, m, entries[i].key, entries[i].item),
                        m, entries, i + 2, fn)
    ELSE sweepFrom_skip(w, m, entries, i + 1, fn)

RECURSIVE sweepFrom(_, _, _, _, _)
sweepFrom(w, m, entries, i, fn) ==
    IF i > Len(entries)
    THEN w
    ELSE sweepFrom(IF Test(w, fn, entries[i].item.value, entries[i].key)
                   THEN deleteItem(w, m, entries[i].key, entries[i].item)
                   ELSE w,
                   m, entries, i + 1, fn)

sweep(w, m, fn) ==
    LET size == Len(w.store[m])
        w1 == sweepFrom(w, m, w.store[m], 1, fn)
    IN  Return(w1, size - Len(w1.store[m]))

clear(w, m) == sweep(w, m, UserFn("true"))

copyItem(w, m, key, item, ensureIt, refreshTimeout) ==
    LET timeout == getItemTimeout(item, ~refreshTimeout)
    IN  IF timeout = Null
        THEN Return(w, RetUndefined)
        ELSE IF ensureIt
        THEN ensure(w, m, key, Closure(item.value), timeout, TRUE)
        ELSE set(w, m, key, item.value, timeout)

\* the loop of clone, filter, partition, concat and sort: the entries that pass
\* fn are copied into yes, the others into no ("" when they are left out)
RECURSIVE copyFrom(_, _, _, _, _, _, _, _)
copyFrom(w, entries, i, fn, yes, no, ensureIt, refreshTimeout) ==
    IF i > Len(entries)
    THEN w
    ELSE LET e == entries[i]
             m == IF Test(w, fn, e.item.value, e.key) THEN yes ELSE no
         IN  copyFrom(IF m = "" THEN w
                      ELSE copyItem(w, m, e.key, e.item, ensureIt, refreshTimeout),
                      entries, i + 1, fn, yes, no, ensureIt, refreshTimeout)

\* clone with 'this.#copyItem' for 'map.#copyItem'
clone_intoThis(w, m, refreshTimeout, map) ==
    Return(copyFrom(w, w.store[m], 1, UserFn("true"), m, "", FALSE, refreshTimeout),
           RetUndefined)

\* map is the container that 'new TempMap()' makes
clone(w, m, refreshTimeout, map) ==
    Return(copyFrom(w, w.store[m], 1, UserFn("true"), map, "", FALSE, refreshTimeout),
           RetUndefined)

filter(w, m, fn, refreshTimeout, map) ==
    Return(copyFrom(w, w.store[m], 1, fn, map, "", FALSE, refreshTimeout), RetUndefined)

partition(w, m, fn, refreshTimeout, map0, map1) ==
    Return(copyFrom(w, w.store[m], 1, fn, map0, map1, FALSE, refreshTimeout),
           RetUndefined)

concat(w, m, other, refreshTimeout) ==
    IF m = other
    THEN Return(w, RetUndefined)
    ELSE Return(copyFrom(w, w.store[other], 1, UserFn("true"), m, "", TRUE,
                         refreshTimeout), RetUndefined)

difference(w, m, other, refreshTimeout, map, map2) ==
    LET w1 == filter(w, m, [kind |-> "notIn", other |-> other], refreshTimeout, map)
        w2 == filter(w1, other, [kind |-> "notIn", other |-> m], refreshTimeout, map2)
    IN  concat(w2, map, map2, TRUE)

intersect(w, m, other, refreshTimeout, map) ==
    filter(w, m, [kind |-> "sameIn", other |-> other], refreshTimeout, map)

\* the compare functions a caller passes: fn(firstValue, secondValue, firstKey, secondKey)
defaultSort(firstValue, secondValue) ==
    IF firstValue > secondValue THEN 1 ELSE IF firstValue = secondValue THEN 0 ELSE 0 - 1
Compares == {"default", "keyDesc"}
Compare(fn, firstValue, secondValue, firstKey, secondKey) ==
    IF fn = "default"
    THEN defaultSort(firstValue, secondValue)
    ELSE KeyRank(secondKey) - KeyRank(firstKey)

\* Array.prototype.sort is stable: an entry goes before the first one greater than it
\* (insertSorted_unstable: before the first one that is not less than it)
RECURSIVE insertSorted_unstable(_, _, _, _)
insertSorted_unstable(sorted, e, i, fn) ==
    IF i > Len(sorted)
    THEN Append(sorted, e)
    ELSE IF Compare(fn, sorted[i].item.value, e.item.value, sorted[i].key, e.key) >= 0
    THEN SubSeq(sorted, 1, i - 1) \o <<e>> \o SubSeq(sorted, i, Len(sorted))
    ELSE insertSorted_unstable(sorted, e, i + 1, fn)

RECURSIVE insertSorted(_, _, _, _)
insertSorted(sorted, e, i, fn) ==
    IF i > Len(sorted)
    THEN Append(sorted, e)
    ELSE IF Compare(fn, sorted[i].item.value, e.item.value, sorted[i].key, e.key) > 0
    THEN SubSeq(sorted, 1, i - 1) \o <<e>> \o SubSeq(sorted, i, Len(sorted))
    ELSE insertSorted(sorted, e, i + 1, fn)
RECURSIVE arraySort(_, _, _, _)
arraySort(entries, i, sorted, fn) ==
    IF i > Len(entries)
    THEN sorted
    ELSE arraySort(entries, i + 1, insertSorted(sorted, entries[i], 1, fn), fn)

sort(w, m, fn, refreshTimeout) ==
    LET entries == arraySort(w.store[m], 1, <<>>, fn)
    IN  Return(copyFrom(clear(w, m), entries, 1, UserFn("true"), m, "", FALSE,
                        refreshTimeout), RetUndefined)

\* entries yields the pairs [key, item.value] in insertion order
entries(w, m) ==
    [i \in 1..Len(w.store[m]) |-> <<w.store[m][i].key, w.store[m][i].item.value>>]

\* An argument a caller's function receives is a key or a value.
KeyArg(key) == [is |-> "key", key |-> key, value |-> 0]
ValueArg(value) == [is |-> "value", key |-> "", value |-> value]

\* forEach: the argument lists of the calls of fn, in the order they are made;
\* the loop names the pair of entries '[key, value]' and calls fn(key, value, this)
forEachCalls(w, m) ==
    [i \in 1..Len(entries(w, m)) |->
        LET key == entries(w, m)[i][1]
            value == entries(w, m)[i][2]
        IN  <<KeyArg(key), ValueArg(value), m>>]
forEach(w, m) == Return(w, RetUndefined)

\* map: the array of what fn(value, key, map) makes of each entry; fn is a test
mapArray(w, m, fn) ==
    [i \in 1..Len(w.store[m]) |->
        RetBool(Test(w, fn, w.store[m][i].item.value, w.store[m][i].key))]
map(w, m, fn) == Return(w, RetUndefined)

\* ------------------------------------------------------------------ state

Here == World(store, timers)

\* The step just taken: the method, its container and its arguments (the
\* defaults where it has none), the item its key had before the step, and
\* what the step handed out besides ret (the argument lists of the calls of a
\* caller's function, or the array it returned).
Idle == [op |-> "idle", m |-> "A", key |-> "", value |-> 0, timeout |-> Undefined,
         refreshTimeout |-> TRUE, other |-> "", fn |-> "", item |-> undefinedItem,
         out |-> <<>>]
Step(op, m) == [Idle EXCEPT !.op = op, !.m = m]
Keyed(op, m, key) == [Step(op, m) EXCEPT !.key = key, !.item = mapGet(store[m], key)]

\* The caller is done with the step before: it holds nothing that step
\* returned and no container that step made.
Quiet == \A m \in News : store[m] = <<>> /\ ~\E h \in timers : h.m = m
Ready == last = Idle /\ Quiet

Becomes(w, step) == /\ store' = w.store
                    /\ timers' = w.timers
                    /\ ret' = w.ret
                    /\ last' = step
                    /\ UNCHANGED now

Init == /\ now = 0
        /\ store = [m \in AllMaps |-> <<>>]
        /\ timers = {}
        /\ ret = RetUndefined
        /\ last = Idle

Get(m, key, refreshTimeout) ==
    /\ Ready
    /\ Becomes(get(Here, m, key, refreshTimeout),
               [Keyed("get", m, key) EXCEPT !.refreshTimeout = refreshTimeout])

\* Map.prototype.has, which TempMap inherits
Has(m, key) ==
    /\ Ready
    /\ Becomes(Return(Here, RetBool(mapHas(store[m], key))), Keyed("has", m, key))

Ensure(m, key, defaultValue, timeout, refreshTimeout) ==
    /\ Ready
    /\ Becomes(ensure(Here, m, key, defaultValue, timeout, refreshTimeout),
               [Keyed("ensure", m, key) EXCEPT !.value = defaultValue.value,
                    !.fn = defaultValue.kind, !.timeout = timeout,
                    !.refreshTimeout = refreshTimeout])

At(m, index, refreshTimeout) ==
    /\ Ready
    /\ Becomes(at(Here, m, index, refreshTimeout),
               [Keyed("at", m, atKey(Here, m, index)) EXCEPT
                    !.value = index, !.refreshTimeout = refreshTimeout])

Set(m, key, value, timeout) ==
    /\ Ready
    /\ Becomes(set(Here, m, key, value, timeout),
               [Keyed("set", m, key) EXCEPT !.value = value, !.timeout = timeout])

Add(m, key, value, timeout) ==
    /\ Ready
    /\ Becomes(add(Here, m, key, value, timeout),
               [Keyed("add", m, key) EXCEPT !.value = value, !.timeout = timeout])

Update(m, key, value, timeout) ==
    /\ Ready
    /\ Becomes(update(Here, m, key, value, timeout),
               [Keyed("update", m, key) EXCEPT !.value = value, !.timeout = timeout])

Delete(m, key) ==
    /\ Ready
    /\ Becomes(delete(Here, m, key), Keyed("delete", m, key))

Sweep(m, fn) ==
    /\ Ready
    /\ Becomes(sweep(Here, m, fn), [Step("sweep", m) EXCEPT !.fn = fn.kind])

Clear(m) ==
    /\ Ready
    /\ Becomes(clear(Here, m), Step("clear", m))

Clone(m, refreshTimeout) ==
    /\ Ready
    /\ Becomes(clone(Here, m, refreshTimeout, "R1"),
               [Step("clone", m) EXCEPT !.refreshTimeout = refreshTimeout])

Filter(m, fn, refreshTimeout) ==
    /\ Ready
    /\ Becomes(filter(Here, m, fn, refreshTimeout, "R1"),
               [Step("filter", m) EXCEPT !.fn = fn.kind,
                    !.refreshTimeout = refreshTimeout])

Partition(m, fn, refreshTimeout) ==
    /\ Ready
    /\ Becomes(partition(Here, m, fn, refreshTimeout, "R1", "R2"),
               [Step("partition", m) EXCEPT !.fn = fn.kind,
                    !.refreshTimeout = refreshTimeout])

Concat(m, other, refreshTimeout) ==
    /\ Ready
    /\ Becomes(concat(Here, m, other, refreshTimeout),
               [Step("concat", m) EXCEPT !.other = other,
                    !.refreshTimeout = refreshTimeout])

Difference(m, other, refreshTimeout) ==
    /\ Ready
    /\ Becomes(difference(Here, m, other, refreshTimeout, "R1", "R2"),
               [Step("difference", m) EXCEPT !.other = other,
                    !.refreshTimeout = refreshTimeout])

Intersect(m, other, refreshTimeout) ==
    /\ Ready
    /\ Becomes(intersect(Here, m, other, refreshTimeout, "R1"),
               [Step("intersect", m) EXCEPT !.other = other,
                    !.refreshTimeout = refreshTimeout])

Sort(m, fn, refreshTimeout) ==
    /\ Ready
    /\ Becomes(sort(Here, m, fn, refreshTimeout),
               [Step("sort", m) EXCEPT !.fn = fn, !.refreshTimeout = refreshTimeout])

ForEach(m) ==
    /\ Ready
    /\ Becomes(forEach(Here, m), [Step("forEach", m) EXCEPT !.out = forEachCalls(Here, m)])

Map(m, fn) ==
    /\ Ready
    /\ Becomes(map(Here, m, fn),
               [Step("map", m) EXCEPT !.fn = fn.kind, !.out = mapArray(Here, m, fn)])

Equals(m, other) ==
    /\ Ready
    /\ Becomes(equals(Here, m, other), [Step("equals", m) EXCEPT !.other = other])

\* the caller lets go of what the step before returned and made
Release == /\ ~Ready
           /\ store' = [m \in AllMaps |-> IF m \in News THEN <<>> ELSE store[m]]
           /\ timers' = {h \in timers : h.m \notin News}
           /\ ret' = RetUndefined
           /\ last' = Idle
           /\ UNCHANGED now

\* the clock advances
Tick == /\ now < MaxTime
        /\ now' = now + 1
        /\ ret' = RetUndefined
        /\ last' = Step("tick", "A")
        /\ UNCHANGED <<store, timers>>

\* the callback of a due timer runs: super.delete(key)
Fire(h) == /\ h \in timers
           /\ now >= h.due
           /\ store' = [store EXCEPT ![h.m] = mapDelete(@, h.key)]
           /\ timers' = timers \ {h}
           /\ ret' = RetUndefined
           /\ last' = Keyed("fire", h.m, h.key)
           /\ UNCHANGED now

\* the calls on one container
Calls(m) ==
    \/ \E key \in KeysOf(m), refreshTimeout \in BOOLEAN : Get(m, key, refreshTimeout)
    \/ \E key \in KeysOf(m) : Has(m, key)
    \/ \E index \in Indices, refreshTimeout \in BOOLEAN : At(m, index, refreshTimeout)
    \/ \E key \in KeysOf(m), defaultValue \in Defaults, timeout \in TimeoutArgs,
          refreshTimeout \in BOOLEAN :
           Ensure(m, key, defaultValue, timeout, refreshTimeout)
    \/ \E key \in KeysOf(m), value \in Values, timeout \in TimeoutArgs :
           Set(m, key, value, timeout)
    \/ \E key \in KeysOf(m), value \in Values, timeout \in TimeoutArgs :
           Add(m, key, value, timeout)
    \/ \E key \in KeysOf(m), value \in Values, timeout \in TimeoutArgs :
           Update(m, key, value, timeout)
    \/ \E key \in KeysOf(m) : Delete(m, key)
    \/ \E fn \in Tests : Sweep(m, fn)
    \/ Clear(m)

\* the calls that go over the entries of one container
Copies(m) ==
    \/ ForEach(m)
    \/ \E fn \in Tests : Map(m, fn)
    \/ \E refreshTimeout \in BOOLEAN : Clone(m, refreshTimeout)
    \/ \E fn \in Tests, refreshTimeout \in BOOLEAN : Filter(m, fn, refreshTimeout)
    \/ \E fn \in Tests, refreshTimeout \in BOOLEAN : Partition(m, fn, refreshTimeout)
    \/ \E fn \in Compares, refreshTimeout \in BOOLEAN : Sort(m, fn, refreshTimeout)

\* the calls of one container that take another
Pairs(m) ==
    \/ \E other \in Maps, refreshTimeout \in BOOLEAN : Concat(m, other, refreshTimeout)
    \/ \E other \in Maps, refreshTimeout \in BOOLEAN : Difference(m, other, refreshTimeout)
    \/ \E other \in Maps, refreshTimeout \in BOOLEAN : Intersect(m, other, refreshTimeout)
    \/ \E other \in Maps : Equals(m, other)

\* one container and everything a caller can do with it
Next ==
    \/ Calls("A")
    \/ Copies("A")
    \/ Release
    \/ Tick
    \/ \E h \in timers : Fire(h)

Spec == Init /\ [][Next]_vars

\* set, by a caller that drops what it returns at once
Fill(m, key, value, timeout) ==
    /\ Ready
    /\ Becomes(Return(set(Here, m, key, value, timeout), RetUndefined), Idle)

\* two containers, filled by set, and the calls that copy entries
NextPair ==
    \/ \E m \in Maps : \E key \in KeysOf(m), value \in Values, timeout \in TimeoutArgs :
           Fill(m, key, value, timeout)
    \/ Copies("A")
    \/ Pairs("A")
    \/ Release
    \/ Tick
    \/ \E h \in timers : Fire(h)

SpecPair == Init /\ [][NextPair]_vars

\* one container whose entries are inserted with a duration and then only read
Insert(m, key, value, timeout) ==
    /\ ~mapHas(store[m], key)
    /\ \/ Set(m, key, value, timeout)
       \/ Add(m, key, value, timeout)
       \/ Ensure(m, key, Plain(value), timeout, TRUE)

NextExpire ==
    \/ \E key \in Keys, value \in Values, d \in 1..MaxTimeout :
           Insert("A", key, value, Num(d))
    \/ \E key \in Keys : Get("A", key, FALSE)
    \/ \E key \in Keys : Has("A", key)
    \/ Release
    \/ Tick
    \/ \E h \in timers : Fire(h)

SpecExpire == Init /\ [][NextExpire]_vars

\* one container of up to three entries, filled by set and sorted
NextSort ==
    \/ \E key \in SortKeys, value \in Values,
          timeout \in {Undefined} \cup {Num(n) : n \in 1..MaxTimeout} :
           Fill("A", key, value, timeout)
    \/ \E fn \in Compares, refreshTimeout \in BOOLEAN : Sort("A", fn, refreshTimeout)
    \/ Release
    \/ Tick
    \/ \E h \in timers : Fire(h)

SpecSort == Init /\ [][NextSort]_vars

\* ------------------------------------------------------------------ properties

TypeOK ==
    /\ now \in 0..MaxTime
    /\ ret \in 0..2
    /\ \A m \in AllMaps : \A i \in 1..Len(store[m]) :
           /\ store[m][i].key \in Keys \cup SortKeys
           /\ store[m][i].item.value \in Values
    /\ \A h \in timers : h.m \in AllMaps /\ h.key \in Keys \cup SortKeys /\ h.after > 0

\* the instant at which the remaining time of an item's timer reaches zero
Due(item) == item.timer.timestamp + item.timer.timeout
\* the pending callback that the timer of item, stored under key in m, stands for
CallbackOf(m, key, item) ==
    [id |-> item.timer.timer, m |-> m, key |-> key,
     after |-> item.timer.timeout, due |-> Due(item)]
\* the step just taken acted on a key that held an item
OnExisting(ops) == last.op \in ops /\ last.item # undefinedItem
Present == ret # RetUndefined

\* C1: an entry inserted with a duration d > 0 and then only read is found by
\* get(key, false) and has(key) before d has elapsed since the insertion and is
\* not found after d has elapsed; its callback does not remove it before.
\* (Under SpecExpire every entry is inserted with a duration and then only
\* read, so the timestamp of its timer is the instant of its insertion.)
C1_ExpiresAfterDuration ==
    /\ (OnExisting({"get", "has"}) /\ now < Due(last.item)) => Present
    /\ (OnExisting({"get", "has"}) /\ now > Due(last.item)) => ~Present
    /\ OnExisting({"fire"}) => now >= Due(last.item)

\* C2: a timer's callback removes a key only when it is the callback of the
\* timer the key's item has now, and that timer's duration has elapsed since
\* its last arm or refresh; a callback of a timer that was replaced, removed
\* or deleted never removes the key's item.
C2_NoStaleCallback ==
    [][\A h \in timers :
           (Fire(h) /\ mapHas(store[h.m], h.key)) =>
               LET item == mapGet(store[h.m], h.key)
               IN  /\ HasTimer(item)
                   /\ h = CallbackOf(h.m, h.key, item)
                   /\ now >= Due(item)]_vars

\* a callback has removed an item whose timer was armed again after the first instant
C2_Witness ==
    /\ OnExisting({"fire"})
    /\ last.item.timer.timestamp > 0
    /\ ~mapHas(store[last.m], last.key)

\* C3: set or update with a number n on an existing key makes the value the
\* given one and replaces the timer: for n > 0 the item has duration n, starts
\* now, and its callback is the only one pending for the key; for n <= 0 the
\* item has no timer and no callback is pending for the key.
C3_NumberReplacesTimer ==
    (OnExisting({"set", "update"}) /\ last.timeout.kind = "number") =>
        LET item == mapGet(store[last.m], last.key)
            n == last.timeout.n
        IN  /\ item.value = last.value
            /\ ret = last.value
            /\ n > 0 => /\ item.timer.timeout = n
                        /\ item.timer.timestamp = now
                        /\ TimersOf(timers, last.m, last.key) =
                               {CallbackOf(last.m, last.key, item)}
            /\ n <= 0 => /\ ~HasTimer(item)
                         /\ TimersOf(timers, last.m, last.key) = {}

\* set with a number has replaced a timer of another duration armed earlier
C3_Witness ==
    /\ OnExisting({"set"})
    /\ last.timeout.kind = "number" /\ last.timeout.n > 0
    /\ HasTimer(last.item)
    /\ last.item.timer.timeout # last.timeout.n
    /\ last.item.timer.timestamp < now
    /\ last.item.value # last.value

\* C4: set or update without a timeout on an existing key makes the value the
\* given one; a timer the item has keeps its duration and starts again now; an
\* item without a timer gets none; set without a timeout on a missing key
\* makes an item without a timer.
C4_OmittedRefreshes ==
    (last.op \in {"set", "update"} /\ last.timeout = Undefined) =>
        LET item == mapGet(store[last.m], last.key)
        IN  IF last.item = undefinedItem
            THEN last.op = "set" =>
                     /\ item = NewItem(last.value)
                     /\ TimersOf(timers, last.m, last.key) = {}
            ELSE /\ item.value = last.value
                 /\ IF HasTimer(last.item)
                    THEN /\ item.timer = [last.item.timer EXCEPT !.timestamp = now]
                         /\ TimersOf(timers, last.m, last.key) =
                                {CallbackOf(last.m, last.key, item)}
                    ELSE /\ ~HasTimer(item)
                         /\ TimersOf(timers, last.m, last.key) = {}

\* set without a timeout has refreshed a timer that was armed earlier
C4_Witness ==
    /\ OnExisting({"set"})
    /\ last.timeout = Undefined
    /\ HasTimer(last.item)
    /\ last.item.timer.timestamp < now
    /\ last.item.value # last.value
    /\ mapGet(store[last.m], last.key).timer.timestamp = now

\* the container m is as it was but for the value of key
OnlyValueChanged(m, key, value) ==
    /\ Len(store'[m]) = Len(store[m])
    /\ \A i \in 1..Len(store[m]) :
           /\ store'[m][i].key = store[m][i].key
           /\ store'[m][i].item =
                  IF store[m][i].key = key
                  THEN [store[m][i].item EXCEPT !.value = value]
                  ELSE store[m][i].item
    /\ \A other \in AllMaps \ {m} : store'[other] = store[other]

\* C5: set or update with null on an existing key changes the value and
\* nothing else: the item's timer and every pending callback are as before.
C5_NullKeepsTimer ==
    [][(last'.op \in {"set", "update"} /\ last'.timeout = Null
            /\ last'.item # undefinedItem) =>
           /\ OnlyValueChanged(last'.m, last'.key, last'.value)
           /\ timers' = timers
           /\ ret' = last'.value]_vars

\* set with null has changed the value of an item whose timer was armed earlier
C5_Witness ==
    /\ OnExisting({"set"})
    /\ last.timeout = Null
    /\ HasTimer(last.item)
    /\ last.item.timer.timestamp < now
    /\ last.item.value # last.value
    /\ mapGet(store[last.m], last.key).timer = last.item.timer

\* C6: get on an item with a timer of duration d returns the value; with
\* refreshTimeout the timer keeps d and starts again now, so that its callback
\* is due d from now; without it the containers and the pending callbacks are
\* as before.
C6_SlidingRead ==
    [][(last'.op = "get" /\ HasTimer(last'.item)) =>
           /\ ret' = last'.item.value
           /\ IF last'.refreshTimeout
              THEN LET item == mapGet(store'[last'.m], last'.key)
                   IN  /\ item = [last'.item EXCEPT !.timer.timestamp = now]
                       /\ TimersOf(timers', last'.m, last'.key) =
                              {[CallbackOf(last'.m, last'.key, last'.item)
                                   EXCEPT !.due = now + last'.item.timer.timeout]}
              ELSE store' = store /\ timers' = timers]_vars

\* get with refreshTimeout has given its full duration back to a timer that had run down
C6_Witness ==
    /\ OnExisting({"get"})
    /\ last.refreshTimeout
    /\ HasTimer(last.item)
    /\ last.item.timer.timestamp < now
    /\ now < Due(last.item)
    /\ mapGet(store[last.m], last.key).timer.timestamp = now
    /\ Present

\* C10: clear returns the number of entries the container had and leaves it
\* empty: get and has find no key, no callback of the container is pending,
\* and clear on an empty container returns 0.
C10_Clear ==
    [][last'.op = "clear" =>
           LET m == last'.m
           IN  /\ ret' = Len(store[m])
               /\ store'[m] = <<>>
               /\ \A key \in Keys :
                      /\ ~mapHas(store'[m], key)
                      /\ get(World(store', timers'), m, key, FALSE).ret = RetUndefined
               /\ ~\E h \in timers' : h.m = m]_vars

\* clear has removed two entries, one of them with a timer
C10_Witness ==
    /\ last.op = "clear"
    /\ ret = 2
    /\ store[last.m] = <<>>
    /\ timers = {}
    /\ now > 0

\* The containers the copying step 'step' wrote into, the containers it read
\* from, and the keys it put into dst (the step leads from the unprimed state
\* to the primed one).
Dests(step) ==
    CASE step.op \in {"clone", "filter", "difference", "intersect"} -> {"R1"}
      [] step.op = "partition" -> {"R1", "R2"}
      [] step.op \in {"concat", "sort"} -> {step.m}
Sources(step) ==
    CASE step.op \in {"clone", "filter", "partition", "sort", "intersect"} -> {step.m}
      [] step.op = "concat" -> {step.other}
      [] step.op = "difference" -> {step.m, step.other}
Copied(step, dst) ==
    IF step.op = "concat"
    THEN mapKeys(store'[dst]) \ mapKeys(store[dst])
    ELSE mapKeys(store'[dst])
\* the remaining time of the item has reached zero and its callback has not run
IsDue(item) == HasTimer(item) /\ Due(item) <= now
\* the keys of the source that a copy without refresh is to carry over
Carried(step) ==
    {key \in mapKeys(store[CHOOSE src \in Sources(step) : TRUE]) :
        LET item == mapGet(store[CHOOSE src \in Sources(step) : TRUE], key)
        IN  /\ ~IsDue(item)
            /\ step.op = "filter" => Test(Here, UserFn(step.fn), item.value, key)
            /\ step.op = "concat" => ~mapHas(store[step.m], key)}

\* C7: a copy without refresh keeps the countdown.  After clone, filter,
\* partition, concat or sort with refreshTimeout = false, every entry that was
\* copied has the value of its source entry; if the source has a timer with
\* remaining time r > 0 the copy's timer has duration r, starts now and its
\* callback, the only one pending for the key, is due at the instant the
\* source's is; if the source has no timer the copy has none.  Every source
\* entry that is not due (and passes the test, and is new to the container) is
\* copied.
C7_CopyKeepsCountdown ==
    [][(last'.op \in {"clone", "filter", "partition", "concat", "sort"}
            /\ ~last'.refreshTimeout) =>
           LET src == CHOOSE m \in Sources(last') : TRUE
           IN  /\ \A dst \in Dests(last') : \A key \in Copied(last', dst) :
                      LET from == mapGet(store[src], key)
                          item == mapGet(store'[dst], key)
                      IN  /\ from # undefinedItem
                          /\ item.value = from.value
                          /\ IF HasTimer(from)
                             THEN /\ Due(from) > now
                                  /\ item.timer.timeout = Due(from) - now
                                  /\ item.timer.timestamp = now
                                  /\ TimersOf(timers', dst, key) =
                                         {CallbackOf(dst, key, item)}
                             ELSE /\ ~HasTimer(item)
                                  /\ TimersOf(timers', dst, key) = {}
               /\ Carried(last') =
                      UNION {Copied(last', dst) : dst \in Dests(last')}]_vars

\* clone(false) has copied an entry whose timer had run down to less than its duration
C7_Witness ==
    /\ last.op = "clone"
    /\ ~last.refreshTimeout
    /\ \E key \in mapKeys(store["R1"]) :
           LET from == mapGet(store[last.m], key)
               item == mapGet(store["R1"], key)
           IN  /\ HasTimer(from)
               /\ from.timer.timestamp < now
               /\ item.timer.timeout < from.timer.timeout
               /\ Due(item) = Due(from)

\* C8: after clone, filter, partition, concat, difference, intersect or sort,
\* with either value of refreshTimeout, no entry that was copied has a source
\* entry whose remaining time had reached zero.
C8_DueNeverCopied ==
    [][last'.op \in {"clone", "filter", "partition", "concat", "difference",
                     "intersect", "sort"} =>
           \A dst \in Dests(last') : \A key \in Copied(last', dst) :
               \A src \in Sources(last') : ~IsDue(mapGet(store[src], key))]_vars

\* C9: concat leaves the entries the container had as they were, in value,
\* timer duration and timer start; it adds only keys of the other container;
\* concat of a container with itself changes nothing.
C9_ConcatKeepsExisting ==
    [][last'.op = "concat" =>
           LET m == last'.m
           IN  /\ Len(store'[m]) >= Len(store[m])
               /\ \A i \in 1..Len(store[m]) : store'[m][i] = store[m][i]
               /\ mapKeys(store'[m]) \subseteq
                      mapKeys(store[m]) \cup mapKeys(store[last'.other])
               /\ last'.other = m => (store' = store /\ timers' = timers)]_vars

\* C11: add on a key that has an item returns undefined and changes nothing
\* (the item keeps its value, its timer's duration and its timer's start, and
\* no callback is touched); update on a key that has no item returns undefined
\* and inserts nothing; add on a missing key and update on an existing one
\* return the given value and leave it as the key's value.
C11_ExistenceChecked ==
    [][last'.op \in {"add", "update"} =>
           IF (last'.op = "add") = (last'.item # undefinedItem)
           THEN /\ ret' = RetUndefined
                /\ store' = store
                /\ timers' = timers
           ELSE /\ ret' = last'.value
                /\ mapGet(store'[last'.m], last'.key).value = last'.value]_vars

\* add with another value and a duration was refused on an item whose timer had run down
C11_Witness ==
    /\ OnExisting({"add"})
    /\ HasTimer(last.item)
    /\ last.item.timer.timestamp < now
    /\ last.item.value # last.value
    /\ last.timeout.kind = "number" /\ last.timeout.n > 0
    /\ ret = RetUndefined
    /\ mapGet(store[last.m], last.key) = last.item

\* the containers are as they were but for the item of key in m
OnlyItemChanged(m, key) ==
    /\ \A k \in Keys \ {key} :
           /\ mapGet(store'[m], k) = mapGet(store[m], k)
           /\ TimersOf(timers', m, k) = TimersOf(timers, m, k)
    /\ \A other \in AllMaps \ {m} : store'[other] = store[other]

\* C12: ensure on a key that holds an item returns the item's value and leaves
\* the value and the timer's duration as they were, whatever the timeout
\* argument is; with refreshTimeout a timer the item has starts again now, and
\* without it nothing changes at all.  ensure on a key that holds no item
\* inserts the default value, or what the default function makes of the key,
\* and returns it; the new item has a timer of the given duration starting now
\* when timeout is a number above zero, and no timer otherwise.
C12_Ensure ==
    [][last'.op = "ensure" =>
           LET m == last'.m
               key == last'.key
               item == mapGet(store'[m], key)
           IN  /\ OnlyItemChanged(m, key)
               /\ IF last'.item # undefinedItem
                  THEN /\ ret' = last'.item.value
                       /\ item.value = last'.item.value
                       /\ IF last'.refreshTimeout /\ HasTimer(last'.item)
                          THEN /\ item.timer = [last'.item.timer EXCEPT !.timestamp = now]
                               /\ TimersOf(timers', m, key) = {CallbackOf(m, key, item)}
                          ELSE store' = store /\ timers' = timers
                  ELSE LET value == IF last'.fn = "byKey" THEN KeyRank(key)
                                    ELSE last'.value
                           n == last'.timeout.n
                       IN  /\ ret' = value
                           /\ item.value = value
                           /\ Len(store'[m]) = Len(store[m]) + 1
                           /\ IF last'.timeout.kind = "number" /\ n > 0
                              THEN /\ item.timer.timeout = n
                                   /\ item.timer.timestamp = now
                                   /\ TimersOf(timers', m, key) =
                                          {CallbackOf(m, key, item)}
                              ELSE /\ ~HasTimer(item)
                                   /\ TimersOf(timers', m, key) = {}]_vars

\* ensure with another default and another duration has found an item whose
\* timer had run down, and has refreshed it
C12_Witness ==
    /\ OnExisting({"ensure"})
    /\ last.refreshTimeout
    /\ HasTimer(last.item)
    /\ last.item.timer.timestamp < now
    /\ last.timeout.kind = "number" /\ last.timeout.n > 0
    /\ last.timeout.n # last.item.timer.timeout
    /\ last.fn = "value" /\ last.value # last.item.value
    /\ ret = last.item.value
    /\ mapGet(store[last.m], last.key).timer.timestamp = now

\* the container holds key, and the remaining time of its item has not reached zero
Live(m, key) == mapHas(store[m], key) /\ ~IsDue(mapGet(store[m], key))
\* the copy 'item' of 'from' that key has in dst after the step keeps the value, and
\* without refresh the remaining time of a timer and the lack of one
CopyOf(dst, key, from, refreshTimeout) ==
    LET item == mapGet(store'[dst], key)
    IN  /\ item.value = from.value
        /\ HasTimer(item) = HasTimer(from)
        /\ (HasTimer(from) /\ ~refreshTimeout) =>
               /\ item.timer.timestamp = now
               /\ Due(item) = Due(from)
               /\ TimersOf(timers', dst, key) = {CallbackOf(dst, key, item)}

\* C13: difference returns a new container whose keys are exactly the keys
\* that one of the two containers holds and the other does not, each with the
\* value it has in the container that holds it; without refresh each copy keeps
\* the remaining time of its source.  (A container holds a key when it has an
\* item for it whose remaining time has not reached zero.)
C13_Difference ==
    [][last'.op = "difference" =>
           LET A == last'.m
               B == last'.other
           IN  /\ mapKeys(store'["R1"]) = {key \in Keys : Live(A, key) # Live(B, key)}
               /\ \A key \in mapKeys(store'["R1"]) :
                      CopyOf("R1", key,
                             mapGet(store[IF Live(A, key) THEN A ELSE B], key),
                             last'.refreshTimeout)]_vars

\* the keys of the entries of container m after the step, in their order
KeysAfter(m) == [i \in 1..Len(store'[m]) |-> store'[m][i].key]
\* the keys of the entries of m before the step that satisfy P, in their order
KeysWhere(m, P(_)) ==
    LET kept == SelectSeq(store[m], P)
    IN  [i \in 1..Len(kept) |-> kept[i].key]
\* the step changed no entry and no callback of container m
Untouched(m) ==
    /\ store'[m] = store[m]
    /\ {h \in timers' : h.m = m} = {h \in timers : h.m = m}

\* C14: intersect returns a new container that holds exactly the entries of
\* the container whose key the other container holds too, with the same value,
\* in the container's insertion order and with the container's values; a key
\* both hold with different values is left out; no entry and no timer of
\* either container changes.  (A container holds a key when it has an item for
\* it whose remaining time has not reached zero.)
C14_Intersect ==
    [][last'.op = "intersect" =>
           LET A == last'.m
               B == last'.other
               Both(e) == /\ Live(A, e.key)
                          /\ Live(B, e.key)
                          /\ mapGet(store[B], e.key).value = e.item.value
           IN  /\ KeysAfter("R1") = KeysWhere(A, Both)
               /\ \A key \in mapKeys(store'["R1"]) :
                      CopyOf("R1", key, mapGet(store[A], key), last'.refreshTimeout)
               /\ Untouched(A)
               /\ Untouched(B)]_vars

\* C15: partition returns two new containers: the first holds exactly the
\* entries of the container that are not due and satisfy the test, the second
\* exactly those that are not due and do not, each in the container's
\* insertion order and with the container's values; no key is in both, and
\* together they hold the keys of the container that are not due.
C15_Partition ==
    [][last'.op = "partition" =>
           LET A == last'.m
               Passed(e) == /\ Live(A, e.key)
                            /\ Test(Here, UserFn(last'.fn), e.item.value, e.key)
               Failed(e) == /\ Live(A, e.key)
                            /\ ~Test(Here, UserFn(last'.fn), e.item.value, e.key)
           IN  /\ KeysAfter("R1") = KeysWhere(A, Passed)
               /\ KeysAfter("R2") = KeysWhere(A, Failed)
               /\ mapKeys(store'["R1"]) \cap mapKeys(store'["R2"]) = {}
               /\ mapKeys(store'["R1"]) \cup mapKeys(store'["R2"]) =
                      {key \in Keys : Live(A, key)}
               /\ \A dst \in {"R1", "R2"} : \A key \in mapKeys(store'[dst]) :
                      CopyOf(dst, key, mapGet(store[A], key), last'.refreshTimeout)]_vars

\* C16: sort reorders the container in place.  Afterwards it holds the
\* entries it had, with their values, but for those the copy skips as due
\* (without refresh, the entries whose remaining time has reached zero); no
\* entry comes before one that compares less; entries that compare equal are
\* in the order they were in; an entry that had a timer has one again, started
\* now, of the full duration with refresh and of the remaining time without,
\* with exactly one callback pending; an entry that had none has none.
C16_Sort ==
    [][last'.op = "sort" =>
           LET m == last'.m
               fn == last'.fn
               after == store'[m]
               Kept(e) == last'.refreshTimeout \/ ~IsDue(e.item)
               Cmp(i, j) == Compare(fn, after[i].item.value, after[j].item.value,
                                    after[i].key, after[j].key)
           IN  /\ mapKeys(after) = mapKeys(SelectSeq(store[m], Kept))
               /\ Len(after) = Cardinality(mapKeys(after))
               /\ \A i, j \in 1..Len(after) : i < j =>
                      /\ Cmp(i, j) <= 0
                      /\ Cmp(i, j) = 0 =>
                             mapIndex(store[m], after[i].key) <
                                 mapIndex(store[m], after[j].key)
               /\ \A key \in mapKeys(after) :
                      LET from == mapGet(store[m], key)
                          item == mapGet(after, key)
                      IN  /\ item.value = from.value
                          /\ IF HasTimer(from)
                             THEN /\ item.timer.timestamp = now
                                  /\ item.timer.timeout =
                                         IF last'.refreshTimeout
                                         THEN from.timer.timeout
                                         ELSE Due(from) - now
                                  /\ TimersOf(timers', m, key) =
                                         {CallbackOf(m, key, item)}
                             ELSE /\ ~HasTimer(item)
                                  /\ TimersOf(timers', m, key) = {}
               /\ \A key \in SortKeys \ mapKeys(after) :
                      TimersOf(timers', m, key) = {}]_vars

\* sort by value has moved the last of three entries to the front, left the
\* two equal ones in their order, and kept the remaining time of a timer
C16_Witness ==
    /\ last.op = "sort" /\ last.fn = "default" /\ ~last.refreshTimeout
    /\ Len(store[last.m]) = 3
    /\ store[last.m][1].key = "c" /\ store[last.m][1].item.value = 1
    /\ store[last.m][2].key = "b" /\ store[last.m][2].item.value = 2
    /\ store[last.m][3].key = "a" /\ store[last.m][3].item.value = 2
    /\ store[last.m][2].item.timer.timeout = 1
    /\ store[last.m][2].item.timer.timestamp = 1

\* C17: forEach calls fn once for each entry, in insertion order, with the
\* entry's value as the first argument, its key as the second and the
\* container as the third; it changes no entry and no pending callback.
C17_ForEach ==
    [][last'.op = "forEach" =>
           LET m == last'.m
           IN  /\ Len(last'.out) = Len(store[m])
               /\ \A i \in 1..Len(store[m]) :
                      last'.out[i] = <<ValueArg(store[m][i].item.value),
                                      KeyArg(store[m][i].key), m>>
               /\ store' = store
               /\ timers' = timers]_vars

\* every key of every container has the callback of its item's timer pending
\* and no other: none when it has no item or its item has no timer
OneCallbackPerTimer ==
    \A m \in AllMaps : \A key \in Keys :
        TimersOf(timers, m, key) =
            IF HasTimer(mapGet(store[m], key))
            THEN {CallbackOf(m, key, mapGet(store[m], key))}
            ELSE {}

\* C18: in every state each key has exactly one pending callback when its
\* item has a timer, the one that timer armed, and none when it has no item
\* or a permanent one; so a callback that runs removes the item that armed
\* it, and every other entry of every container stays as it was.
C18_OneCallbackPerTimer ==
    [][/\ OneCallbackPerTimer
       /\ OneCallbackPerTimer'
       /\ \A h \in timers : Fire(h) =>
              /\ mapGet(store[h.m], h.key).timer.timer = h.id
              /\ ~mapHas(store'[h.m], h.key)
              /\ timers' = timers \ {h}
              /\ OnlyItemChanged(h.m, h.key)]_vars

\* set with a number has replaced a timer that had run down, next to a
\* permanent entry, and one callback is pending
C18_Witness ==
    /\ OnExisting({"set"})
    /\ HasTimer(last.item)
    /\ last.item.timer.timestamp < now
    /\ last.timeout.kind = "number" /\ last.timeout.n > 0
    /\ Len(store[last.m]) = 2
    /\ \E key \in Keys \ {last.key} : ~HasTimer(mapGet(store[last.m], key))
    /\ Cardinality(timers) = 1
    /\ \A h \in timers : h.due = now + last.timeout.n

\* C19: an item whose remaining time has reached zero and whose callback has
\* not run is treated as absent.  On the key of such an item get and at
\* return undefined and ensure returns its default; and after get, at, set or
\* update without a timeout, and ensure without a duration, no callback of the
\* key is pending for a later instant: the life of the item is not extended.
C19_DueIsAbsent ==
    [][(/\ last'.op \in {"get", "at", "ensure", "set", "update"}
        /\ last'.op \in {"set", "update"} => last'.timeout = Undefined
        /\ IsDue(last'.item)) =>
           /\ last'.op \in {"get", "at"} => ret' = RetUndefined
           /\ last'.op = "ensure" =>
                  ret' = IF last'.fn = "byKey" THEN KeyRank(last'.key) ELSE last'.value
           /\ ~(last'.op = "ensure" /\ last'.timeout.kind = "number"
                    /\ last'.timeout.n > 0) =>
                  \A h \in TimersOf(timers', last'.m, last'.key) : h.due <= now]_vars

\* C20: clone, filter, partition, intersect, difference, equals and map leave
\* the containers of the caller as they were, whatever refreshTimeout is: the
\* same keys in the same order, the same values, every timer with its
\* duration and start, and every pending callback.
C20_SourcesUnchanged ==
    [][last'.op \in {"clone", "filter", "partition", "intersect", "difference",
                     "equals", "map"} =>
           \A m \in Maps : Untouched(m)]_vars

\* clone with refresh has given a copy its full duration again, and the source
\* entry still has the start it had
C20_Witness ==
    /\ last.op = "clone" /\ last.refreshTimeout
    /\ \E key \in mapKeys(store["R1"]) :
           LET from == mapGet(store[last.m], key)
               item == mapGet(store["R1"], key)
           IN  /\ HasTimer(from)
               /\ from.timer.timestamp < now
               /\ now < Due(from)
               /\ item.timer.timestamp = now
               /\ item.timer.timeout = from.timer.timeout
====
